---- MODULE Spec2Model ----
(***************************************************************************)
(* The resumable listing scraper of src/scrap.py as a state machine: the   *)
(* runner scrape_all_from_listing, the per-slice loop                      *)
(* scrape_month_with_load_more, the parser's identity filter, the CSV sink *)
(* and the final de-duplication, run against a simulated page driver.      *)
(***************************************************************************)
EXTENDS Integers, Sequences, FiniteSets, TLC

----------------------------------------------------------------------------
(* Bounds of the model.  The program's own numbers are 12 month slices     *)
(* (month_slices), 50 cards per page (count=50) and 10000 clicks           *)
(* (MAX_CLICKS_PER_SLICE); they are scaled down here.                      *)

\* number of slices a run walks through (the code: 12 months)
NumSlices == 2
\* cards a page load renders, and cards one activation reveals (the code: 50)
PageSize == 2
\* ceiling of the expansion loop (the code: 10000)
MAX_CLICKS_PER_SLICE == 3
\* longest listing of one slice
MaxItems == 3
\* cards of all slices' listings together
MaxCards == 4
\* runs of the program over the same store (a run after an abort resumes)
MaxRuns == 2
\* transient driver or I/O faults injected in one behaviour
MaxFaults == 1
\* distinct identities a source may show
NumIds == 2

Slices == 1..NumSlices
\* the identities the source may show, in the order a listing first names them
IdOrder == <<"tt1", "tt2", "tt3", "tt4", "tt5", "tt6", "tt7", "tt8">>
Ids == {IdOrder[i] : i \in 1..NumIds}
\* parse_id_from_url returns "" when the URL holds no /title/<id> part
NoId == ""
\* the identity column's name, as the header row of the CSV carries it
Header == "IMDb ID"

Min(a, b) == IF a < b THEN a ELSE b
Max(a, b) == IF a > b THEN a ELSE b
Range(s) == {s[i] : i \in 1..Len(s)}

----------------------------------------------------------------------------
VARIABLES
    \* the source behind the page driver, fixed for a behaviour
    items,          \* items[s]: the listing of slice s, a card being its identity
    avail,          \* activations after which a page's "50 more" control is gone
    virtual,        \* TRUE: after an activation only the last PageSize cards are rendered
    blocked,        \* the slice whose every driver.get fails (0: none)
    \* the persisted store OUT_CSV
    csvExists,      \* OUT_CSV.exists()
    csv,            \* the file's lines: the header row, then one identity per row
    rowSlice,       \* history: rowSlice[i] is the slice that appended data row i
    \* scrape_all_from_listing
    run,            \* which run of the program this is
    pc,             \* the run's position
    seen_global,    \* the ledger
    total_saved,
    m,              \* the month slice of the for loop
    inv,            \* 1: the loop's call of the slice, 2: the call after "Tab crashed"
    driver,         \* the runner's session handle
    made,           \* sessions make_driver has created in this run
    live,           \* sessions created and not quit
    \* scrape_month_with_load_more
    drv,            \* the function's own session handle
    saved_in_slice,
    seen_slice,
    clicks,
    page,           \* what the session shows: [off |-> start offset, k |-> activations]
    click,          \* the last activation: how btn.click() and the script click ended
    \* history variables
    faults,         \* transient faults injected so far
    attempts,       \* consecutive failed navigations for the current slice
    recreated,      \* make_driver calls since the first of those failures
    requested,      \* the start offset of the last navigation
    ledger0,        \* the ledger as the current call of the slice function found it
    rendered,       \* non-empty identities of the windows parsed since the last navigation
    parses,         \* windows parsed since the last navigation
    exitWhy,        \* why the expansion loop ended: "gone", "ceiling", "clickfail"
    retWhy,         \* why the slice returned: "timeout", "probe_empty", "probe_error"
    appended,       \* rows appended to the store by this run
    visited,        \* slices this run has called scrape_month_with_load_more for
    returned,       \* returned[s]: what the slice's call returned, -1 before it has
    prev,           \* how the previous run ended: "none", "done", "abort", "dead",
                    \* "crashed", "iofail"
    csv0,           \* the store as the current run found it
    \* one call of the parser's loop body on one card (lines 186-246)
    card,           \* what the driver answers to each lookup on the card
    row,            \* the loop body's outcome: Unparsed, NoRow, or the row it appended
    \* one script run of the recommender app in "More like this movie" mode
    \* (src/app.py, lines 71-85 and 151-176)
    ui,             \* the loaded artifacts and the widgets' values
    shown           \* what the run put on the page

source == <<items, avail, virtual, blocked>>
store == <<csvExists, csv, rowSlice>>
runner == <<run, seen_global, total_saved, m, inv, driver, made, live>>
slice == <<drv, saved_in_slice, seen_slice, clicks, page, click>>
history == <<faults, attempts, recreated, requested, ledger0, rendered, parses, exitWhy,
             retWhy, appended, visited, returned, prev, csv0>>
program == <<source, store, runner, pc, slice, history>>
parser == <<card, row>>
app == <<ui, shown>>
vars == <<program, parser, app>>

----------------------------------------------------------------------------
(* The page driver's rendering of the source.                              *)

\* the cards rendered for slice s at start offset o after k activations
Window(s, o, k) ==
    LET total == Len(items[s])
        hi == Min(total, o - 1 + PageSize * (k + 1))
        lo == IF virtual /\ k > 0 THEN Max(o, hi - PageSize + 1) ELSE o
    IN  IF hi < lo THEN << >> ELSE [i \in 1..(hi - lo + 1) |-> items[s][lo + i - 1]]

\* find_50_more: a control is found until `avail` activations have been made
find_50_more(k) == k < avail

\* the loop's condition off by one: `clicks <= MAX_CLICKS_PER_SLICE`
WithinCeilingInclusive(c) == c <= MAX_CLICKS_PER_SLICE

\* line 302: the expansion loop's condition
WithinCeiling(c) == c < MAX_CLICKS_PER_SLICE

\* wait_for_any_layout succeeds only when a card of either layout is present
LayoutPresent(s, o) == Window(s, o, 0) # << >>

----------------------------------------------------------------------------
(* Pure parts of the program.                                              *)

\* a parser without the `not imdb_id` test of line 234
parse_cards_keeping_empty(w, sg, ss) ==
    LET fresh(c) == ~(c \in sg \/ c \in ss)
    IN  SelectSeq(w, fresh)

\* parse_cards_into_rows: the cards of the window, in order, whose identity is
\* non-empty and in neither set; a row is not compared with the rows before it
parse_cards_into_rows(w, sg, ss) ==
    LET fresh(c) == ~(c = NoId \/ c \in sg \/ c \in ss)
    IN  SelectSeq(w, fresh)

\* append_rows: mode "a" when the file exists, else "w" with the header first
append_rows(exists, lines, rows) ==
    IF exists THEN lines \o rows ELSE <<Header>> \o rows

\* pd.read_csv(...)["IMDb ID"].dropna(): the identity column, row by row
IdColumn(lines) ==
    IF lines = << >> \/ Head(lines) # Header THEN << >>
    ELSE SelectSeq(Tail(lines), LAMBDA c : c # NoId)

\* a run that does not read the store back: the ledger starts empty
HydrateNothing(exists, lines) == {}

\* the ledger's hydration: set(df.get("IMDb ID", ...).dropna().astype(str))
Hydrate(exists, lines) == IF exists THEN Range(IdColumn(lines)) ELSE {}

\* a drop_duplicates that drops nothing
KeptRowsAll(col) == 1..Len(col)

\* indices kept by drop_duplicates(subset=["IMDb ID"]): first occurrences
KeptRows(col) == {i \in 1..Len(col) : \A j \in 1..(i - 1) : col[j] # col[i]}

RECURSIVE Pick(_, _, _)
\* the subsequence of col at the indices of keep, from index i on
Pick(col, keep, i) ==
    IF i > Len(col) THEN << >>
    ELSE (IF i \in keep THEN <<col[i]>> ELSE << >>) \o Pick(col, keep, i + 1)

\* the final dedupe's to_csv: the header and the first row of each identity
Compacted(lines) == <<Header>> \o Pick(Tail(lines), KeptRows(Tail(lines)), 1)

----------------------------------------------------------------------------
(* The body of the parser's loop on one card, field by field.  A card is   *)
(* what the driver answers to each lookup on it: a text, or Raises when    *)
(* the lookup or the read of the element raises.                           *)

Raises == "<raises>"
\* the outcomes of the loop body without a row: not run yet, card skipped
Outcome(what) == [status |-> what, title |-> "", id |-> NoId, rating |-> "",
                  votes |-> "", duration |-> "", blurb |-> ""]
Unparsed == Outcome("unparsed")
NoRow == Outcome("skipped")
\* the card slot outside a call of the parser
NoCard == [layout |-> "none", link |-> Raises, known |-> FALSE, linkText |-> Raises,
           h3 |-> Raises, rating |-> Raises, votes |-> Raises, duration |-> Raises,
           blurb |-> Raises]

\* texts of the title element and of the link: ranked ("1. Heat") or not
TitleTexts == {"", "Heat", "1. Heat"}
\* texts of the vote count: "(1,234)" in the new layout, "1,234" in the old
VoteTexts == {"(1,234)", "1,234", "1234"}
\* a rating, a runtime, and a short and a long paragraph
RatingTexts == {"7.9"}
DurationTexts == {"2h 50m"}
BlurbTexts == {"A heist.", "A crew of thieves plans one last heist."}

Cards ==
    [layout : {"new", "old"},
     link : {Raises, "noid", "id"},      \* the link lookup; its href without or with /title/<id>
     known : BOOLEAN,                     \* the identity is in seen_global or seen_slice
     linkText : TitleTexts \cup {Raises}, \* a.text
     h3 : TitleTexts \cup {Raises},       \* the text of SEL_NEW_TITLE
     rating : RatingTexts \cup {Raises},
     votes : VoteTexts \cup {Raises},
     duration : DurationTexts \cup {Raises},
     blurb : BlurbTexts \cup {Raises}]

\* normalize_title: a leading rank "N. " is cut off
normalize_title(raw) == IF raw = "1. Heat" THEN "Heat" ELSE raw

\* .strip("()").replace(",", "") and .replace(",", "")
StripVotesNew(v) == IF v \in {"(1,234)", "1,234"} THEN "1234" ELSE v
StripVotesOld(v) ==
    CASE v = "(1,234)" -> "(1234)"
      [] v = "1,234" -> "1234"
      [] OTHER -> v

\* a guarded read: try: <read> except Exception: ""
Guarded(x) == IF x = Raises THEN "" ELSE x

\* pick_blurb_new, pick_blurb_old: the paragraph if it is longer than 20
pick_blurb(x) == IF x # Raises /\ Len(x) > 20 THEN x ELSE ""

\* parse_id_from_url on the link's href
parse_id_from_url(link) == IF link = "id" THEN IdOrder[1] ELSE NoId

\* lines 186-245: the loop body; NoRow when the outer except or the identity
\* test skips the card
ParsedCard(c) ==
    LET titleRaises == IF c.layout = "new"
                       THEN c.h3 = Raises /\ c.linkText = Raises
                       ELSE c.linkText = Raises
        title == IF c.layout = "new"
                 THEN (IF c.h3 # Raises THEN normalize_title(c.h3) ELSE c.linkText)
                 ELSE normalize_title(c.linkText)
        votes == IF c.layout = "new" THEN StripVotesNew(Guarded(c.votes))
                 ELSE StripVotesOld(Guarded(c.votes))
        id == parse_id_from_url(c.link)
    IN  IF c.link = Raises \/ titleRaises THEN NoRow
        ELSE IF id = NoId \/ c.known THEN NoRow
        ELSE [status |-> "row",
              title |-> title, id |-> id, rating |-> Guarded(c.rating),
              votes |-> votes, duration |-> Guarded(c.duration),
              blurb |-> pick_blurb(c.blurb)]

----------------------------------------------------------------------------
(* One activation of the control, lines 316-333.                           *)

\* how btn.click() may end: it returns, or raises one of the two exceptions
\* the first except names, or any other exception
PrimaryOutcomes == {"ok", "intercepted", "stale", "other"}
\* how the script click may end
FallbackOutcomes == {"ok", "raises"}
\* no activation yet
NoClick == [attempt |-> 0, primary |-> "none", fallback |-> "none"]

\* a handler that tries the script click only after the two named exceptions
FallbackTriedWhenNamed(primary) == primary \in {"intercepted", "stale"}

\* lines 322-333: both except clauses call execute_script
FallbackTried(primary) == primary # "ok"

\* the n-th activation of the slice: the script click is made, with the given
\* luck, when it is tried
ClickOutcome(n, primary, luck) ==
    [attempt |-> n, primary |-> primary,
     fallback |-> IF FallbackTried(primary) THEN luck ELSE "none"]

\* the `clicked` flag of line 335
Clicked(c) == c.primary = "ok" \/ c.fallback = "ok"

----------------------------------------------------------------------------
(* The recommender app, src/app.py: one run of the script in "More like    *)
(* this movie" mode.  Similarities are dot products in hundredths.         *)

\* rows of movies_meta.csv
NumMovies == 2
\* the upper end of the "How many recommendations?" slider
MaxK == 2

Titles == {"Heat", "Ronin"}
\* rating_float of prep_df: << >> is NaN
Ratings == {<< >>, <<5>>, <<8>>}
SimLevels == {0, 50, 100}
\* values of the "Similarity" and "Min IMDb rating" sliders
MinSimChoices == {5, 60}
MinRatingChoices == {0, 7}

\* the frame df
Catalogues == [1..NumMovies -> [title : Titles, rating_float : Ratings]]
\* X @ X.T for L2-normalized rows; an empty storyline gives a zero row
Similarities ==
    {S \in [1..NumMovies -> [1..NumMovies -> SimLevels]] :
        \A i, j \in 1..NumMovies : S[i][j] = S[j][i] /\ S[i][i] \in {0, 100}}

\* the app outside a run
NoUi == [df |-> << >>, X |-> << >>, pick |-> "", go |-> FALSE, k |-> 0,
         min_sim |-> 0, min_rating |-> 0]

\* what a run leaves on the page: the kind of its end and the listed rows
Page(kind, res) == [kind |-> kind, res |-> res]
NotRun == Page("none", << >>)

\* names bound at module level when line 225 calls run_item_mode
ModuleNames ==
    {"Path", "json", "pickle", "io", "np", "pd", "st", "sparse", "ART_DIR",
     "load_artifacts", "prep_df", "cosine_topk", "explain_overlap", "cfg", "df_raw",
     "X", "vec", "TITLE_COL", "STORY_COL", "df", "mode", "k", "min_sim", "min_rating",
     "show_explain", "run_text_mode", "run_item_mode"}
\* names run_item_mode has assigned by line 165
ItemModeLocals == {"pick", "go", "base_idx", "q", "order", "sims", "res"}
\* reading a name succeeds when a scope binds it; otherwise NameError
Bound(name) == name \in ModuleNames \cup ItemModeLocals

\* line 158: the first row with the picked title
base_idx(df, pick) ==
    CHOOSE i \in 1..Len(df) :
        df[i].title = pick /\ \A j \in 1..(i - 1) : df[j].title # pick

\* cosine_topk, lines 51-55: the kk best rows by similarity to row b, best
\* first; rows of equal similarity come in an order numpy leaves open
cosine_topk(S, b, kk) ==
    LET n == Len(S)
        top == IF n > 0 THEN Min(kk, n) ELSE 1
    IN  {o \in [1..top -> 1..n] :
            /\ \A a, c \in 1..top : a < c => (o[a] # o[c] /\ S[b][o[a]] >= S[b][o[c]])
            /\ \A i \in 1..n : (\A a \in 1..top : o[a] # i)
                                  => \A a \in 1..top : S[b][o[a]] >= S[b][i]}

\* lines 168-170: the similarity floor and the optional rating floor
Thresholds(u, b, order) ==
    LET Keeps(i) ==
            /\ u.X[b][i] >= u.min_sim
            /\ u.min_rating > 0
                 => (u.df[i].rating_float = << >> \/ u.df[i].rating_float[1] >= u.min_rating)
    IN  SelectSeq(order, Keeps)

\* line 172: the first min(k, len(res)) rows
TakeK(res, k) == SubSeq(res, 1, Min(k, Len(res)))

\* run_item_mode, lines 151-176, with `order` what cosine_topk returned.
\* Line 165 reads exclude_same_title before any filter is applied; as the
\* name is bound nowhere, the filters and the two ends of lines 174-190 are
\* behind it.
run_item_mode(u, order) ==
    IF ~(u.go /\ u.pick # "")
    THEN Page("idle", << >>)
    ELSE IF ~Bound("exclude_same_title")
    THEN Page("NameError", << >>)
    ELSE LET res == TakeK(Thresholds(u, base_idx(u.df, u.pick), order), u.k)
         IN  IF res = << >> THEN Page("warning", << >>) ELSE Page("list", res)

----------------------------------------------------------------------------
\* a page before any navigation
Blank == [off |-> 0, k |-> 0]

\* all listings of at most n cards
Listings(n) == UNION {[1..l -> Ids \cup {NoId}] : l \in 0..n}

RECURSIVE Flat(_, _)
\* the listings of slices s..NumSlices, one after the other
Flat(f, s) == IF s > NumSlices THEN << >> ELSE f[s] \o Flat(f, s + 1)

\* identities are interchangeable: a source names them tt1, tt2, ... in the
\* order in which its listings first show them
Canonical(f) ==
    LET all == Flat(f, 1)
    IN  \A i \in 1..Len(all) : \A j \in 2..NumIds :
            all[i] = IdOrder[j] => \E h \in 1..(i - 1) : all[h] = IdOrder[j - 1]

\* the program before its first run, on a store that does not exist yet
FirstStart ==
    /\ csvExists = FALSE
    /\ csv = << >>
    /\ rowSlice = << >>
    /\ run = 1
    /\ pc = "start"
    /\ seen_global = {}
    /\ total_saved = 0
    /\ m = 1
    /\ inv = 1
    /\ driver = 0
    /\ made = 0
    /\ live = {}
    /\ drv = 0
    /\ saved_in_slice = 0
    /\ seen_slice = {}
    /\ clicks = 0
    /\ page = Blank
    /\ click = NoClick
    /\ faults = 0
    /\ attempts = 0
    /\ recreated = 0
    /\ requested = 0
    /\ ledger0 = {}
    /\ rendered = {}
    /\ parses = 0
    /\ exitWhy = ""
    /\ retWhy = ""
    /\ appended = 0
    /\ visited = {}
    /\ returned = [s \in Slices |-> -1]
    /\ prev = "none"
    /\ csv0 = << >>

Init ==
    /\ items \in {f \in [Slices -> Listings(MaxItems)] :
                     Len(Flat(f, 1)) <= MaxCards /\ Canonical(f)}
    /\ avail \in 0..(MAX_CLICKS_PER_SLICE + 1)
    /\ virtual \in (IF avail = 0 THEN {FALSE} ELSE BOOLEAN)
    /\ blocked \in 0..NumSlices
    /\ FirstStart
    /\ card = NoCard
    /\ row = Unparsed
    /\ ui = NoUi
    /\ shown = NotRun

----------------------------------------------------------------------------
(* scrape_month_with_load_more is entered: its locals, lines 264-265.  The *)
(* session's page is read only after a navigation, so it starts as Blank.  *)
EnterSlice(handle, ledger) ==
    /\ ledger0' = ledger
    /\ drv' = handle
    /\ saved_in_slice' = 0
    /\ seen_slice' = {}
    /\ clicks' = 0
    /\ page' = Blank
    /\ click' = NoClick
    /\ rendered' = {}
    /\ parses' = 0
    /\ exitWhy' = ""
    /\ retWhy' = ""

\* scrape_all_from_listing up to the first call of the slice function:
\* the ledger is hydrated from the store and a session is made
Startup ==
    /\ pc = "start"
    /\ seen_global' = Hydrate(csvExists, csv)
    /\ total_saved' = 0
    /\ made' = 1
    /\ live' = {1}
    /\ driver' = 1
    /\ m' = 1
    /\ inv' = 1
    /\ EnterSlice(1, Hydrate(csvExists, csv))
    /\ visited' = {1}
    /\ pc' = "nav"
    /\ UNCHANGED <<source, store, run, faults, attempts, recreated, requested,
                   appended, returned, prev, csv0>>
    /\ UNCHANGED <<parser, app>>

\* a handler that calls the slice once more than the program's does
RunnerCallsThrice == 2 + 1

\* a WebDriverException leaves scrape_month_with_load_more: the runner's
\* handler (lines 399-406) quits ITS handle, makes a session and calls the
\* slice again, once; out of that second call the exception ends the run
\* through the finally clause (lines 411-415)
RunnerCalls == 2
Propagate ==
    IF inv < RunnerCalls
    THEN /\ live' = (live \ {driver}) \cup {made + 1}
         /\ made' = made + 1
         /\ driver' = made + 1
         /\ inv' = inv + 1
         /\ EnterSlice(made + 1, seen_global)
         /\ recreated' = IF attempts' > 0 THEN recreated + 1 ELSE 0
         /\ pc' = "nav"
    ELSE /\ live' = live \ {driver}
         /\ pc' = "crashed"
         /\ UNCHANGED <<made, driver, inv, slice, recreated, ledger0, rendered, parses,
                        exitWhy, retWhy>>

\* driver.get(url) on this handle fails whatever the luck: the session was
\* quit, or the slice is blocked
GetMustFail(handle) == handle \notin live \/ m = blocked

\* a transient fault may be injected
MayFault == faults < MaxFaults

\* line 274: driver.get(url) succeeds
NavOk ==
    /\ pc = "nav"
    /\ ~GetMustFail(drv)
    /\ page' = [off |-> saved_in_slice + 1, k |-> 0]
    /\ requested' = saved_in_slice + 1
    /\ attempts' = 0
    /\ recreated' = 0
    /\ rendered' = {}
    /\ parses' = 0
    /\ exitWhy' = ""
    /\ pc' = "wait"
    /\ UNCHANGED <<source, store, runner, drv, saved_in_slice, seen_slice, clicks,
                   faults, retWhy, appended, visited, returned, prev, csv0,
                   ledger0>>
    /\ UNCHANGED <<parser, app, click>>

\* lines 275-280: driver.get(url) raises WebDriverException; the crash guard
\* quits the function's session and makes another one
NavFail ==
    /\ pc = "nav"
    /\ GetMustFail(drv) \/ MayFault
    /\ faults' = IF GetMustFail(drv) THEN faults ELSE faults + 1
    /\ live' = (live \ {drv}) \cup {made + 1}
    /\ made' = made + 1
    /\ drv' = made + 1
    /\ requested' = saved_in_slice + 1
    /\ attempts' = attempts + 1
    /\ recreated' = recreated + 1
    /\ pc' = "nav2"
    /\ UNCHANGED <<source, store, run, seen_global, total_saved, m, inv, driver,
                   saved_in_slice, seen_slice, clicks, page, rendered, parses,
                   exitWhy, retWhy, appended, visited, returned, prev, csv0,
                   ledger0>>
    /\ UNCHANGED <<parser, app, click>>

\* line 274 on a session that was quit: the client may raise an error that is
\* no WebDriverException (the connection to the stopped service is refused);
\* no handler catches it and the run ends through the finally clause
NavDie ==
    /\ pc = "nav"
    /\ drv \notin live
    /\ live' = live \ {driver}
    /\ pc' = "dead"
    /\ UNCHANGED <<source, store, run, seen_global, total_saved, m, inv, driver,
                   made, slice, history>>
    /\ UNCHANGED <<parser, app>>

\* line 281: the second driver.get(url), on the new session, succeeds
Nav2Ok ==
    /\ pc = "nav2"
    /\ m # blocked
    /\ page' = [off |-> saved_in_slice + 1, k |-> 0]
    /\ attempts' = 0
    /\ recreated' = 0
    /\ rendered' = {}
    /\ parses' = 0
    /\ exitWhy' = ""
    /\ pc' = "wait"
    /\ UNCHANGED <<source, store, runner, drv, saved_in_slice, seen_slice, clicks,
                   faults, requested, retWhy, appended, visited, returned, prev, csv0,
                   ledger0>>
    /\ UNCHANGED <<parser, app, click>>

\* line 281 raises: nothing in the function catches it
Nav2Fail ==
    /\ pc = "nav2"
    /\ m = blocked \/ MayFault
    /\ faults' = IF m = blocked THEN faults ELSE faults + 1
    /\ attempts' = attempts + 1
    /\ Propagate
    /\ UNCHANGED <<source, store, run, seen_global, total_saved, m, requested,
                   appended, visited, returned, prev, csv0>>
    /\ UNCHANGED <<parser, app>>

----------------------------------------------------------------------------
\* rows found by position: the cards after those of the windows before
RowsAtPositional(k) ==
    LET w == Window(m, page.off, k)
    IN  parse_cards_into_rows(SubSeq(w, PageSize * k + 1, Len(w)), seen_global, seen_slice)

\* the rows the parser returns for what the session shows after k activations
RowsAt(k) == parse_cards_into_rows(Window(m, page.off, k), seen_global, seen_slice)

\* an append step that marks the identities in seen_slice only
SaveRowsLedgerless(rows) ==
    IF rows # << >>
    THEN /\ csv' = append_rows(csvExists, csv, rows)
         /\ csvExists' = TRUE
         /\ rowSlice' = rowSlice \o [i \in 1..Len(rows) |-> m]
         /\ seen_global' = seen_global
         /\ seen_slice' = seen_slice \cup Range(rows)
         /\ saved_in_slice' = saved_in_slice + Len(rows)
         /\ appended' = appended + Len(rows)
    ELSE UNCHANGED <<csv, csvExists, rowSlice, seen_global, seen_slice,
                     saved_in_slice, appended>>

\* an append step whose marking loop stops after the first row
SaveRowsMarkFirst(rows) ==
    IF rows # << >>
    THEN /\ csv' = append_rows(csvExists, csv, rows)
         /\ csvExists' = TRUE
         /\ rowSlice' = rowSlice \o [i \in 1..Len(rows) |-> m]
         /\ seen_global' = seen_global \cup {rows[1]}
         /\ seen_slice' = seen_slice \cup {rows[1]}
         /\ saved_in_slice' = saved_in_slice + Len(rows)
         /\ appended' = appended + Len(rows)
    ELSE UNCHANGED <<csv, csvExists, rowSlice, seen_global, seen_slice,
                     saved_in_slice, appended>>

\* an append step that does not count the rows it has written
SaveRowsUncounted(rows) ==
    IF rows # << >>
    THEN /\ csv' = append_rows(csvExists, csv, rows)
         /\ csvExists' = TRUE
         /\ rowSlice' = rowSlice \o [i \in 1..Len(rows) |-> m]
         /\ seen_global' = seen_global \cup Range(rows)
         /\ seen_slice' = seen_slice \cup Range(rows)
         /\ saved_in_slice' = saved_in_slice
         /\ appended' = appended + Len(rows)
    ELSE UNCHANGED <<csv, csvExists, rowSlice, seen_global, seen_slice,
                     saved_in_slice, appended>>

\* lines 292-296 and 345-349: `if rows:` append them, then mark each identity
\* in both sets and count the rows
SaveRows(rows) ==
    IF rows # << >>
    THEN /\ csv' = append_rows(csvExists, csv, rows)
         /\ csvExists' = TRUE
         /\ rowSlice' = rowSlice \o [i \in 1..Len(rows) |-> m]
         /\ seen_global' = seen_global \cup Range(rows)
         /\ seen_slice' = seen_slice \cup Range(rows)
         /\ saved_in_slice' = saved_in_slice + Len(rows)
         /\ appended' = appended + Len(rows)
    ELSE UNCHANGED <<csv, csvExists, rowSlice, seen_global, seen_slice,
                     saved_in_slice, appended>>

\* history: the window after k activations has been parsed
NoteParse(k) ==
    /\ rendered' = rendered \cup (Range(Window(m, page.off, k)) \ {NoId})
    /\ parses' = parses + 1

\* lines 284-288: no card of either layout within PAGE_TIMEOUT (the page has
\* none, or it is slow): the slice returns what it has saved
LayoutTimeout ==
    /\ pc = "wait"
    /\ ~LayoutPresent(m, page.off) \/ MayFault
    /\ faults' = IF ~LayoutPresent(m, page.off) THEN faults ELSE faults + 1
    /\ retWhy' = "timeout"
    /\ pc' = "ret"
    /\ UNCHANGED <<source, store, runner, slice, attempts, recreated, requested,
                   rendered, parses, exitWhy, appended, visited, returned, prev, csv0,
                   ledger0>>
    /\ UNCHANGED <<parser, app>>

\* lines 285-301: the layout is there; the initial parse and save
InitialSave ==
    /\ pc = "wait"
    /\ LayoutPresent(m, page.off)
    /\ SaveRows(RowsAt(0))
    /\ NoteParse(0)
    /\ clicks' = 0
    /\ pc' = "expand"
    /\ UNCHANGED <<source, run, total_saved, m, inv, driver, made, live, drv, page,
                   faults, attempts, recreated, requested, exitWhy, retWhy,
                   visited, returned, prev, csv0,
                   ledger0>>
    /\ UNCHANGED <<parser, app, click>>

\* the lines of the store that are data rows: all but a leading header
DataRows(lines) == IF lines # << >> /\ Head(lines) = Header THEN Len(lines) - 1
                   ELSE Len(lines)

\* the batch of the append that is about to be made, or has just failed
Batch == RowsAt(IF pc = "wait" THEN 0 ELSE page.k + 1)

\* append_rows raises OSError (lines 248-256) at the initial save or after an
\* activation: either open() fails and the file is as it was, or the file was
\* opened (created, in mode "w") and only the first n lines of what the call
\* was writing have reached it.  No handler of the program catches an OSError,
\* so the run ends through the finally clause.
AppendRaises ==
    /\ pc \in {"wait", "expand"}
    /\ MayFault
    /\ IF pc = "wait"
       THEN LayoutPresent(m, page.off)
       ELSE WithinCeiling(clicks) /\ find_50_more(page.k)
    /\ Batch # << >>
    /\ LET all == append_rows(csvExists, csv, Batch)
       IN  \E opened \in BOOLEAN : \E n \in Len(csv)..(Len(all) - 1) :
              /\ ~opened => n = Len(csv)
              /\ csvExists' = (csvExists \/ opened)
              /\ csv' = SubSeq(all, 1, n)
              /\ rowSlice' = rowSlice \o
                     [i \in 1..(DataRows(SubSeq(all, 1, n)) - DataRows(csv)) |-> m]
              /\ appended' = appended + DataRows(SubSeq(all, 1, n)) - DataRows(csv)
    /\ page' = IF pc = "wait" THEN page ELSE [page EXCEPT !.k = page.k + 1]
    /\ click' = IF pc = "wait" THEN click
                ELSE ClickOutcome(click.attempt + 1, "ok", "ok")
    /\ faults' = faults + 1
    /\ live' = live \ {driver}
    /\ pc' = "iofail"
    /\ UNCHANGED <<source, run, total_saved, m, inv, driver, made, drv, clicks,
                   attempts, recreated, requested, rendered, parses, exitWhy,
                   retWhy, visited, returned, prev, csv0, ledger0>>
    /\ UNCHANGED <<parser, app>>

\* a slice that marks and counts the batch before it writes it
AppendFailMarked ==
    /\ AppendRaises
    /\ seen_global' = seen_global \cup Range(Batch)
    /\ seen_slice' = seen_slice \cup Range(Batch)
    /\ saved_in_slice' = saved_in_slice + Len(Batch)

\* lines 293-296 and 346-349: the marking loop and the count come after the
\* call and are not run when it raises
AppendFail ==
    /\ AppendRaises
    /\ UNCHANGED <<seen_global, seen_slice, saved_in_slice>>

\* the tab crashes under a driver call that no try guards (the layout wait,
\* the parser's get_all_cards, find_50_more's CSS lookups): the
\* WebDriverException leaves the function
TabCrash ==
    /\ pc \in {"wait", "expand"}
    /\ pc = "expand" => WithinCeiling(clicks)
    /\ MayFault
    /\ faults' = faults + 1
    /\ attempts' = attempts
    /\ Propagate
    /\ UNCHANGED <<source, store, run, seen_global, total_saved, m, requested,
                   appended, visited, returned, prev, csv0>>
    /\ UNCHANGED <<parser, app>>

\* lines 304-307: no control is found; the window is fully expanded
ButtonGone ==
    /\ pc = "expand"
    /\ WithinCeiling(clicks)
    /\ ~find_50_more(page.k)
    /\ exitWhy' = "gone"
    /\ pc' = "probe"
    /\ UNCHANGED <<source, store, runner, slice, faults, attempts, recreated,
                   requested, rendered, parses, retWhy, appended, visited,
                   returned, prev, csv0,
                   ledger0>>
    /\ UNCHANGED <<parser, app>>

\* line 302: the loop's condition fails after MAX_CLICKS_PER_SLICE activations
Ceiling ==
    /\ pc = "expand"
    /\ ~WithinCeiling(clicks)
    /\ exitWhy' = "ceiling"
    /\ pc' = "probe"
    /\ UNCHANGED <<source, store, runner, slice, faults, attempts, recreated,
                   requested, rendered, parses, retWhy, appended, visited,
                   returned, prev, csv0,
                   ledger0>>
    /\ UNCHANGED <<parser, app>>

\* lines 317-355: the control is activated (by btn.click(), or by the script
\* click after btn.click() raised), the window is parsed again and its new
\* rows are saved
ClickSave ==
    /\ pc = "expand"
    /\ WithinCeiling(clicks)
    /\ find_50_more(page.k)
    /\ \E primary \in PrimaryOutcomes : \E luck \in FallbackOutcomes :
          /\ Clicked(ClickOutcome(click.attempt + 1, primary, luck))
          /\ primary # "ok" => MayFault
          /\ faults' = IF primary # "ok" THEN faults + 1 ELSE faults
          /\ click' = ClickOutcome(click.attempt + 1, primary, luck)
    /\ page' = [page EXCEPT !.k = page.k + 1]
    /\ SaveRows(RowsAt(page.k + 1))
    /\ NoteParse(page.k + 1)
    /\ clicks' = clicks + 1
    /\ UNCHANGED <<source, run, total_saved, m, inv, driver, made, live, drv, pc,
                   attempts, recreated, requested, exitWhy, retWhy, visited,
                   returned, prev, csv0,
                   ledger0>>
    /\ UNCHANGED <<parser, app>>

\* lines 319-337: btn.click() and the script click both raise
ClickFail ==
    /\ pc = "expand"
    /\ WithinCeiling(clicks)
    /\ find_50_more(page.k)
    /\ MayFault
    /\ \E primary \in PrimaryOutcomes : \E luck \in FallbackOutcomes :
          /\ ~Clicked(ClickOutcome(click.attempt + 1, primary, luck))
          /\ click' = ClickOutcome(click.attempt + 1, primary, luck)
    /\ faults' = faults + 1
    /\ exitWhy' = "clickfail"
    /\ pc' = "probe"
    /\ UNCHANGED <<source, store, runner, drv, saved_in_slice, seen_slice, clicks,
                   page, attempts, recreated, requested,
                   rendered, parses, retWhy, appended, visited, returned, prev, csv0,
                   ledger0>>
    /\ UNCHANGED <<parser, app>>

\* a probe that ends the slice when it HAS parsed new rows
ProbeDoneInverted(probe) == probe # << >>

\* line 370: `if not probe: break`
ProbeDone(probe) == probe = << >>

\* lines 364-374: the probe page at saved_in_slice + 1 loads and shows cards
ProbeParsed ==
    /\ pc = "probe"
    /\ ~GetMustFail(drv)
    /\ LayoutPresent(m, saved_in_slice + 1)
    /\ page' = [off |-> saved_in_slice + 1, k |-> 0]
    /\ LET probe == parse_cards_into_rows(Window(m, saved_in_slice + 1, 0),
                                          seen_global, seen_slice)
       IN  IF ProbeDone(probe)
           THEN retWhy' = "probe_empty" /\ pc' = "ret"
           ELSE retWhy' = retWhy /\ pc' = "nav"
    /\ UNCHANGED <<source, store, runner, drv, saved_in_slice, seen_slice, clicks,
                   faults, attempts, recreated, requested, rendered, parses,
                   exitWhy, appended, visited, returned, prev, csv0,
                   ledger0>>
    /\ UNCHANGED <<parser, app, click>>

\* lines 375-376: anything raised by the probe (the navigation, or the layout
\* wait of a page without cards) ends the slice
ProbeError ==
    /\ pc = "probe"
    /\ LET must == GetMustFail(drv) \/ ~LayoutPresent(m, saved_in_slice + 1)
       IN  /\ must \/ MayFault
           /\ faults' = IF must THEN faults ELSE faults + 1
    /\ retWhy' = "probe_error"
    /\ pc' = "ret"
    /\ UNCHANGED <<source, store, runner, slice, attempts, recreated, requested,
                   rendered, parses, exitWhy, appended, visited, returned, prev, csv0,
                   ledger0>>
    /\ UNCHANGED <<parser, app>>

\* lines 408-415: the slice has returned; the next slice is called with the
\* runner's handle, or the loop ends and the finally clause quits that handle
RunnerNext ==
    /\ pc = "ret"
    /\ returned' = [returned EXCEPT ![m] = saved_in_slice]
    /\ total_saved' = total_saved + saved_in_slice
    /\ IF m < NumSlices
       THEN /\ m' = m + 1
            /\ inv' = 1
            /\ EnterSlice(driver, seen_global)
            /\ visited' = visited \cup {m + 1}
            /\ attempts' = 0
            /\ recreated' = 0
            /\ pc' = "nav"
            /\ UNCHANGED live
       ELSE /\ live' = live \ {driver}
            /\ pc' = "compact"
            /\ UNCHANGED <<m, inv, slice, visited, attempts, recreated, ledger0, rendered,
                           parses, exitWhy, retWhy>>
    /\ UNCHANGED <<source, store, run, seen_global, driver, made, faults,
                   requested, appended, prev, csv0>>
    /\ UNCHANGED <<parser, app>>

\* pd.read_csv finds the identity column: the file starts with the header row
Headed(lines) == lines # << >> /\ Head(lines) = Header

\* lines 417-425: the final dedupe rewrites the store, then the summary.  On a
\* file that is empty (read_csv raises EmptyDataError) or has no header row
\* (drop_duplicates raises KeyError) the run ends there, without the summary.
FinalDedupe ==
    /\ pc = "compact"
    /\ IF csvExists /\ Headed(csv)
       THEN /\ csv' = Compacted(csv)
            /\ rowSlice' = Pick(rowSlice, KeptRows(Tail(csv)), 1)
            /\ pc' = "done"
       ELSE /\ UNCHANGED <<csv, rowSlice>>
            /\ pc' = IF csvExists THEN "dead" ELSE "done"
    /\ UNCHANGED <<source, csvExists, runner, slice, history>>
    /\ UNCHANGED <<parser, app>>

\* the program is started again on the store the run before has left
Restart(how) ==
    /\ run < MaxRuns
    /\ run' = run + 1
    /\ prev' = how
    /\ csv0' = csv
    /\ pc' = "start"
    /\ seen_global' = {}
    /\ total_saved' = 0
    /\ m' = 1
    /\ inv' = 1
    /\ driver' = 0
    /\ made' = 0
    /\ live' = {}
    /\ drv' = 0
    /\ saved_in_slice' = 0
    /\ seen_slice' = {}
    /\ clicks' = 0
    /\ page' = Blank
    /\ click' = NoClick
    /\ attempts' = 0
    /\ recreated' = 0
    /\ requested' = 0
    /\ ledger0' = {}
    /\ rendered' = {}
    /\ parses' = 0
    /\ exitWhy' = ""
    /\ retWhy' = ""
    /\ appended' = 0
    /\ visited' = {}
    /\ returned' = [s \in Slices |-> -1]
    /\ UNCHANGED <<source, store, faults>>
    /\ UNCHANGED <<parser, app>>

\* a run that has ended (summary printed, or an exception) is followed by another
NewRun ==
    /\ pc \in {"done", "dead", "crashed", "iofail"}
    /\ Restart(pc)

\* the process is killed in the middle of a slice and started again
Abort ==
    /\ pc \in {"nav", "nav2", "wait", "expand", "probe", "ret"}
    /\ Restart("abort")

Next ==
    \/ Startup
    \/ NavOk
    \/ NavFail
    \/ NavDie
    \/ Nav2Ok
    \/ Nav2Fail
    \/ LayoutTimeout
    \/ InitialSave
    \/ AppendFail
    \/ TabCrash
    \/ ButtonGone
    \/ Ceiling
    \/ ClickSave
    \/ ClickFail
    \/ ProbeParsed
    \/ ProbeError
    \/ RunnerNext
    \/ FinalDedupe
    \/ NewRun
    \/ Abort

Spec == Init /\ [][Next]_vars

----------------------------------------------------------------------------
(* The same program over sources whose first slice lists distinct items    *)
(* only: up to an initial page, one full expansion and a partial one (the  *)
(* 50 + 50 + 20 items of a 120-item month, with PageSize for 50).          *)

\* a listing of n distinct items
DistinctListing(n) == [i \in 1..n |-> IdOrder[i]]

\* the length of a listing of one page, one full expansion and one more card
ScenarioLen == 2 * PageSize + 1

InitScenario ==
    /\ items \in {[s \in Slices |-> IF s = 1 THEN DistinctListing(n) ELSE << >>] :
                     n \in 0..ScenarioLen}
    /\ avail \in 0..(MAX_CLICKS_PER_SLICE + 1)
    /\ virtual \in (IF avail = 0 THEN {FALSE} ELSE BOOLEAN)
    /\ blocked \in 0..NumSlices
    /\ FirstStart
    /\ card = NoCard
    /\ row = Unparsed
    /\ ui = NoUi
    /\ shown = NotRun

SpecScenario == InitScenario /\ [][Next]_vars

----------------------------------------------------------------------------
(* The parser's loop body applied to one card, whatever the card.          *)

InitParse ==
    /\ items = [s \in Slices |-> << >>]
    /\ avail = 0
    /\ virtual = FALSE
    /\ blocked = 0
    /\ FirstStart
    /\ card \in Cards
    /\ row = Unparsed
    /\ ui = NoUi
    /\ shown = NotRun

ParseCard ==
    /\ row = Unparsed
    /\ card # NoCard
    /\ row' = ParsedCard(card)
    /\ UNCHANGED <<program, card, app>>

NextParse == ParseCard

SpecParse == InitParse /\ [][NextParse]_vars

----------------------------------------------------------------------------
(* One run of the app's script in "More like this movie" mode, whatever    *)
(* the artifacts and the widgets' values.                                  *)

InitItem ==
    /\ items = [s \in Slices |-> << >>]
    /\ avail = 0
    /\ virtual = FALSE
    /\ blocked = 0
    /\ FirstStart
    /\ card = NoCard
    /\ row = Unparsed
    /\ ui \in {u \in [df : Catalogues, X : Similarities, pick : Titles, go : BOOLEAN,
                      k : 1..MaxK, min_sim : MinSimChoices,
                      min_rating : MinRatingChoices] :
                  \E i \in 1..NumMovies : u.df[i].title = u.pick}
    /\ shown = NotRun

\* lines 222-225 with mode = "More like this movie": the script runs once
RunItemMode ==
    /\ ui # NoUi
    /\ shown = NotRun
    /\ \E order \in cosine_topk(ui.X, base_idx(ui.df, ui.pick), Max(ui.k * 10, 500)) :
          shown' = run_item_mode(ui, order)
    /\ UNCHANGED <<program, parser, ui>>

NextItem == RunItemMode

SpecItem == InitItem /\ [][NextItem]_vars

----------------------------------------------------------------------------
(* What one uninterrupted run without any fault leaves in an empty store,  *)
(* computed from the source by the program's own loops.                    *)

\* lines 292-296 on the record st = [sg, ss, saved]
Marked(st, rows) ==
    [sg |-> st.sg \cup Range(rows), ss |-> st.ss \cup Range(rows),
     saved |-> st.saved + Len(rows)]

RECURSIVE Expanded(_, _, _, _)
\* lines 301-355: the expansion loop from k activations on
Expanded(s, o, k, st) ==
    IF ~WithinCeiling(k) \/ ~find_50_more(k) THEN st
    ELSE Expanded(s, o, k + 1,
                  Marked(st, parse_cards_into_rows(Window(s, o, k + 1), st.sg, st.ss)))

RECURSIVE Drained(_, _)
\* lines 268-378: the resume loop of one slice
Drained(s, st) ==
    IF ~LayoutPresent(s, st.saved + 1) THEN st
    ELSE LET a == Marked(st, parse_cards_into_rows(Window(s, st.saved + 1, 0),
                                                   st.sg, st.ss))
             b == Expanded(s, st.saved + 1, 0, a)
         IN  IF \/ ~LayoutPresent(s, b.saved + 1)
                \/ ProbeDone(parse_cards_into_rows(Window(s, b.saved + 1, 0),
                                                   b.sg, b.ss))
             THEN b
             ELSE Drained(s, b)

RECURSIVE Collected(_, _)
\* lines 395-409: the slices in order, each with fresh locals and the one ledger
Collected(s, sg) ==
    IF s > NumSlices THEN sg
    ELSE Collected(s + 1, Drained(s, [sg |-> sg, ss |-> {}, saved |-> 0]).sg)

UninterruptedIds == Collected(1, {})

\* the model's run agrees with that computation
UninterruptedRunAgrees ==
    (run = 1 /\ pc = "done" /\ faults = 0) => Hydrate(csvExists, csv) = UninterruptedIds

----------------------------------------------------------------------------
(* Properties.                                                             *)

StoreIds == Hydrate(csvExists, csv)
NoDup(col) == \A i, j \in 1..Len(col) : i # j => col[i] # col[j]
\* the rows of the store that slice s appended
StoredOf(s) == Cardinality({i \in 1..Len(rowSlice) : rowSlice[i] = s})

\* C1: before the final compaction of a run that started on a store without
\* duplicates, no identity occurs in two rows of the store.
C1_NoDuplicateRows ==
    (pc # "done" /\ NoDup(IdColumn(csv0))) => NoDup(IdColumn(csv))

\* C2: after startup the ledger is the set of identities of the store, at every
\* point of the run; it changes only in a step that appends rows, by exactly
\* their identities, and so never loses an element.  (The equality is stated
\* for a store that starts with its header row, the only kind a completed
\* append creates, and not for the moment after an append has failed.)
C2_LedgerIsStore ==
    /\ []((pc \notin {"start", "iofail"} /\ (csvExists => Headed(csv)))
            => seen_global = StoreIds)
    /\ [][(pc # "start" /\ run' = run /\ seen_global' # seen_global)
            => /\ appended' > appended
               /\ seen_global \subseteq seen_global'
               /\ seen_global' \ seen_global =
                    {csv'[i] : i \in (Len(csv) + 1)..Len(csv')} \ {Header}]_vars

\* a resumed run has hydrated a non-empty ledger and appended to the store
C2_Witness ==
    run = 2 /\ Len(csv0) > 1 /\ appended > 0 /\ seen_global = StoreIds

\* C3: a run aborted in the middle of a slice, followed by a full run on the
\* store it left, ends with the identities one uninterrupted run collects
\* (stated for the sources that show no card twice, and without any fault).
C3_ResumeEquivalence ==
    (/\ run = 2 /\ prev = "abort" /\ pc = "done" /\ faults = 0 /\ blocked = 0
     /\ \A s \in Slices : NoDup(items[s]))
        => StoreIds = UninterruptedIds

\* C4: the start offset a slice requests is one plus the number of the rows
\* of that slice in the store, also in a run that resumes.
C4_OffsetFromStore ==
    (pc = "wait" /\ faults = 0) => requested = 1 + StoredOf(m)

\* C5: a full run after a finished full run over the same source, every
\* driver call answering as before, appends nothing: each slice returns 0,
\* total_saved is 0 and the store's rows are those it started with.
C5_SecondRunAddsNothing ==
    (run = 2 /\ prev = "done" /\ faults = 0)
        => /\ appended = 0
           /\ total_saved = 0
           /\ \A s \in Slices : returned[s] \in {-1, 0}
           /\ Range(csv) = Range(csv0)
           /\ pc = "done" => \A s \in Slices : returned[s] = 0

\* the second run has ended over a source whose first run stored something
C5_Witness ==
    run = 2 /\ prev = "done" /\ faults = 0 /\ pc = "done" /\ Len(csv) > 2

C7_FetchFailureSkipsSlice ==
    ~(pc = "crashed" /\ attempts > 0)

\* C8: the expansion loop never makes more than MAX_CLICKS_PER_SLICE
\* activations; it parses the window once per activation besides the initial
\* parse; when the control is gone after N < MAX_CLICKS_PER_SLICE activations
\* it leaves on the first check without a control, after exactly N; and from
\* the ceiling it goes on to the probe.
C8_ExpansionTermination ==
    /\ [](/\ clicks <= MAX_CLICKS_PER_SLICE
          /\ pc \in {"expand", "probe"} => (parses = clicks + 1 /\ page.k = clicks)
          /\ (pc = "probe" /\ exitWhy = "gone") => clicks = avail
          /\ (pc = "probe" /\ exitWhy = "ceiling")
                => (clicks = MAX_CLICKS_PER_SLICE /\ avail >= clicks)
          /\ (pc = "probe" /\ avail < MAX_CLICKS_PER_SLICE)
                => exitWhy \in {"gone", "clickfail"})
    /\ [][(/\ pc = "expand" /\ run' = run /\ inv' = inv
            /\ pc' \notin {"dead", "crashed", "iofail"})
            => /\ (clicks < avail /\ clicks < MAX_CLICKS_PER_SLICE)
                    => (clicks' = clicks + 1 \/ (pc' = "probe" /\ exitWhy' = "clickfail"))
               /\ (clicks = avail /\ clicks < MAX_CLICKS_PER_SLICE)
                    => (clicks' = clicks /\ pc' = "probe" /\ exitWhy' = "gone")
               /\ clicks = MAX_CLICKS_PER_SLICE
                    => (clicks' = clicks /\ pc' = "probe" /\ exitWhy' = "ceiling")]_vars

\* a control that is gone after one activation has ended the loop after one
C8_Witness ==
    pc = "probe" /\ exitWhy = "gone" /\ avail = 1 /\ clicks = 1 /\ parses = 2

\* C9: when the loop ends because the control is gone, seen_slice holds every
\* non-empty identity of every window parsed since the navigation.
C9_SeenSliceMaximal ==
    (pc = "probe" /\ exitWhy = "gone" /\ faults = 0) => rendered \subseteq seen_slice

\* C9, as amended: when the loop ends because the control is gone, seen_slice
\* holds every non-empty identity of the windows parsed since the navigation
\* that was not in the ledger when this call of the slice began, and nothing
\* that was; the ledger holds all of them.
C9_SeenSliceHoldsTheNew ==
    (pc = "probe" /\ exitWhy = "gone")
        => /\ rendered \ ledger0 \subseteq seen_slice
           /\ seen_slice \cap ledger0 = {}
           /\ rendered \subseteq seen_global

\* the loop has ended on a window showing a known and a new identity
C9_Witness ==
    /\ pc = "probe" /\ exitWhy = "gone" /\ clicks >= 1
    /\ rendered \cap ledger0 # {}
    /\ rendered \ ledger0 # {}

\* C10: when the slice returns because its probe parsed no new row, no window
\* of the probe's page, however far it is expanded, shows an identity outside
\* the ledger and seen_slice.
C10_ProbeIsComplete ==
    (pc = "ret" /\ retWhy = "probe_empty")
        => \A k \in 0..Min(avail, MAX_CLICKS_PER_SLICE) :
              parse_cards_into_rows(Window(m, saved_in_slice + 1, k),
                                    seen_global, seen_slice) = << >>

\* C10, as amended: when the slice returns because its probe parsed no new
\* row, the window first rendered at start offset saved_in_slice + 1 shows
\* cards, and none with an identity outside the ledger and seen_slice.
C10_ProbeWindowIsKnown ==
    (pc = "ret" /\ retWhy = "probe_empty")
        => /\ page = [off |-> saved_in_slice + 1, k |-> 0]
           /\ LayoutPresent(m, saved_in_slice + 1)
           /\ parse_cards_into_rows(Window(m, saved_in_slice + 1, 0),
                                    seen_global, seen_slice) = << >>

\* a slice that has saved rows returns on an empty probe
C10_Witness ==
    pc = "ret" /\ retWhy = "probe_empty" /\ saved_in_slice > 0 /\ exitWhy = "gone"

\* C11: over a first slice of one page, one full expansion and one more card,
\* all distinct, whose control is gone after two activations, the first run on
\* an empty store, without a fault, returns from the slice having appended
\* exactly one row per item, each identity once, with saved_in_slice and the
\* size of seen_slice equal to the number of items, after two activations that
\* ended because the control was gone; and the page at the next start offset
\* shows nothing new.
C11_Scenario ==
    (/\ items[1] = DistinctListing(ScenarioLen) /\ avail = 2
     /\ run = 1 /\ faults = 0 /\ m = 1 /\ pc = "ret")
        => /\ csv = <<Header>> \o DistinctListing(ScenarioLen)
           /\ appended = ScenarioLen
           /\ saved_in_slice = ScenarioLen
           /\ seen_slice = Range(DistinctListing(ScenarioLen))
           /\ Cardinality(seen_slice) = ScenarioLen
           /\ clicks = 2 /\ exitWhy = "gone"
           /\ retWhy \in {"probe_empty", "probe_error"}
           /\ parse_cards_into_rows(Window(1, ScenarioLen + 1, 0),
                                    seen_global, seen_slice) = << >>

\* the scenario's slice has returned, rendering being virtualized or not
C11_Witness ==
    /\ items[1] = DistinctListing(ScenarioLen) /\ avail = 2
    /\ run = 1 /\ faults = 0 /\ m = 1 /\ pc = "ret"
    /\ saved_in_slice = ScenarioLen /\ virtual

\* C12: the step in which append_rows fails leaves the ledger, seen_slice,
\* saved_in_slice and total_saved as they were, so that no identity of the
\* failed batch is in either set; the run is over with it: its session is
\* quit, the slice has not returned, and the only step that follows is a new
\* start of the program.
C12_AppendFailureIsFatal ==
    /\ [](pc = "iofail" => (driver \notin live /\ returned[m] = -1))
    /\ [][(pc' = "iofail" /\ pc # "iofail")
            => /\ Batch # << >>
               /\ Range(Batch) \cap (seen_global' \cup seen_slice') = {}
               /\ seen_global' = seen_global
               /\ seen_slice' = seen_slice
               /\ saved_in_slice' = saved_in_slice
               /\ total_saved' = total_saved]_vars
    /\ [][pc = "iofail" => (run' = run + 1 /\ pc' = "start")]_vars

\* the append after an activation has failed in a slice that had saved rows
C12_Witness ==
    pc = "iofail" /\ page.k = 1 /\ saved_in_slice >= 1 /\ visited = {1}

\* C13: in a first run in which a driver fault has occurred, every navigation
\* of a slice, and so the first one after the recovery from the fault,
\* requests the start offset one plus the number of rows the slice has
\* appended.
C13_FaultResumesAtOffset ==
    (run = 1 /\ pc = "wait" /\ faults > 0) => requested = 1 + StoredOf(m)

\* C14: a run in which nothing but driver calls fails ends only by its
\* summary: it never ends by an exception; it visits the slices in order, one
\* after the other, and has visited all of them when the loop is left.
C14_EndsWithSummary ==
    (prev # "iofail" /\ pc # "iofail")
        => /\ pc \notin {"crashed", "dead"}
           /\ pc # "start" => visited = 1..m
           /\ pc \in {"compact", "done"} => visited = Slices

\* the title, as the code reads it, cannot be extracted
TitleFails(c) ==
    IF c.layout = "new" THEN c.h3 = Raises /\ c.linkText = Raises
    ELSE c.linkText = Raises

\* the fields of the card that cannot be extracted
Failing(c) ==
    {f \in {"rating", "votes", "duration", "blurb"} : c[f] = Raises}
        \cup (IF TitleFails(c) THEN {"title"} ELSE {})

\* C15: a card of either layout with a derivable, new identity and at most
\* one field that cannot be extracted yields a row, in which that field is
\* the empty string and no other field is lost.
C15_FieldIndependence ==
    (/\ row # Unparsed /\ card.link = "id" /\ ~card.known
     /\ Cardinality(Failing(card)) <= 1)
        => /\ row # NoRow
           /\ \A f \in Failing(card) : row[f] = ""
           /\ card.rating # Raises => row.rating = card.rating
           /\ card.duration # Raises => row.duration = card.duration
           /\ card.votes # Raises => row.votes # ""
           /\ (card.blurb # Raises /\ Len(card.blurb) > 20) => row.blurb = card.blurb

\* C16: the empty identity is in no row of the store, not in the ledger and
\* not in seen_slice; and a step that parses a window leaves every non-empty
\* identity of that window in the ledger, whatever cards without identity
\* the window shows.
C16_NoEmptyIdentity ==
    /\ [](/\ NoId \notin Range(csv)
          /\ NoId \notin seen_global
          /\ NoId \notin seen_slice)
    /\ [][(parses' = parses + 1 /\ run' = run)
            => /\ rendered' = rendered \cup
                                (Range(Window(m, page'.off, page'.k)) \ {NoId})
               /\ rendered' \subseteq seen_global']_vars

\* a window with a card without identity has been parsed and a row of it saved
C16_Witness ==
    /\ pc = "expand" /\ parses = 1
    /\ NoId \in Range(Window(m, page.off, page.k))
    /\ Head(Window(m, page.off, page.k)) = NoId
    /\ saved_in_slice = 1

\* C17: once a run has appended to the store, the store starts with the
\* header row and has no other header row, whatever runs and compactions
\* came before.
C17_OneHeader ==
    (csvExists /\ appended > 0 /\ pc # "iofail")
        => /\ Headed(csv)
           /\ \A i \in 2..Len(csv) : csv[i] # Header

\* the position of the first row of col with identity id
FirstRow(col, id) == CHOOSE j \in 1..Len(col) :
                        col[j] = id /\ \A h \in 1..(j - 1) : col[h] # id

\* C18: the store is rewritten only by the final dedupe, which runs after the
\* last slice of a run in which every slice has returned, and after which the
\* run takes no further step.  On a store that starts with its header row it
\* leaves the header and one row for each identity the store had, namely the
\* first row of that identity, in the order of those first rows; a store
\* without duplicates is left as it is.
C18_Compaction ==
    /\ [][(pc = "compact" /\ pc' = "done" /\ csvExists)
            => LET old == Tail(csv)
                   new == Tail(csv')
               IN  /\ Head(csv') = Header
                   /\ NoDup(new)
                   /\ Range(new) = Range(old)
                   /\ \A i \in 1..Len(new) :
                         rowSlice'[i] = rowSlice[FirstRow(old, new[i])]
                   /\ \A i, j \in 1..Len(new) :
                         i < j => FirstRow(old, new[i]) < FirstRow(old, new[j])
                   /\ NoDup(old) => (csv' = csv /\ rowSlice' = rowSlice)]_vars
    /\ [][(run' = run /\ ~(/\ Len(csv') >= Len(csv)
                           /\ SubSeq(csv', 1, Len(csv)) = csv))
            => (pc = "compact" /\ m = NumSlices /\ visited = Slices)]_vars
    /\ [](pc = "compact" => \A s \in Slices : s < m => returned[s] >= 0)
    /\ [][pc = "done" => run' = run + 1]_vars

\* the final dedupe has removed a row from what the run appended
C18_Witness ==
    pc = "done" /\ run = 1 /\ visited = Slices /\ csvExists /\ appended > Len(csv) - 1

\* the lines a step has added at the end of the store, the header left out
Added(before, after) ==
    SelectSeq(SubSeq(after, Len(before) + 1, Len(after)), LAMBDA c : c # Header)

\* C19: a step that parses the rendered window, at the initial parse or after
\* an activation, appends exactly the cards of that window whose identity is
\* non-empty and in neither set, in their order, and adds their identities to
\* both sets; so before the next activation every non-empty identity of the
\* rendered window is in the ledger and in the store, also when the window
\* no longer shows what the window before showed.
C19_WindowReconciled ==
    /\ [][(parses' = parses + 1 /\ run' = run)
            => LET w == Window(m, page'.off, page'.k)
                   new == SelectSeq(w, LAMBDA c : /\ c # NoId
                                                  /\ c \notin seen_global
                                                  /\ c \notin seen_slice)
               IN  /\ Added(csv, csv') = new
                   /\ SubSeq(csv', 1, Len(csv)) = csv
                   /\ seen_global' = seen_global \cup Range(new)
                   /\ seen_slice' = seen_slice \cup Range(new)
                   /\ saved_in_slice' = saved_in_slice + Len(new)]_vars
    /\ [](pc = "expand"
            => /\ Range(Window(m, page.off, page.k)) \ {NoId} \subseteq seen_global
               /\ Range(Window(m, page.off, page.k)) \ {NoId} \subseteq Range(csv))

\* after an activation a virtualized window has dropped a card it showed
\* before, and the card it newly shows has been saved
C19_Witness ==
    /\ pc = "expand" /\ virtual /\ page.k = 1 /\ saved_in_slice = 2
    /\ seen_slice \ Range(Window(m, page.off, page.k)) # {}
    /\ seen_slice \cap Range(Window(m, page.off, page.k)) # {}

\* C20: an activation counts as failed only when btn.click() has raised,
\* whatever it raised, and the script click, tried after it, has raised too;
\* whenever btn.click() raises the script click is tried, and when that one
\* succeeds the step goes on to its parse and save (which ends the run when
\* the append raises).  A failed activation leaves the
\* store, the ledger, seen_slice and saved_in_slice as they are and takes the
\* slice, in the same call, to its probe.
C20_ClickFallback ==
    /\ []((pc = "probe" /\ exitWhy = "clickfail")
            => (click.primary \in PrimaryOutcomes \ {"ok"} /\ click.fallback = "raises"))
    /\ [][click'.attempt = click.attempt + 1
            => /\ pc = "expand"
               /\ click'.primary # "ok" => click'.fallback \in FallbackOutcomes
               /\ (click'.primary = "ok" \/ click'.fallback = "ok")
                     => \/ clicks' = clicks + 1 /\ parses' = parses + 1 /\ pc' = "expand"
                        \/ pc' = "iofail"
               /\ (click'.primary # "ok" /\ click'.fallback # "ok")
                     => /\ pc' = "probe" /\ exitWhy' = "clickfail"
                        /\ inv' = inv /\ m' = m
                        /\ UNCHANGED <<store, seen_global, seen_slice, saved_in_slice,
                                       clicks, appended>>]_vars

\* an activation has failed on an exception of btn.click() other than the two
\* the first handler names, in a slice that had saved rows
C20_Witness ==
    /\ pc = "probe" /\ exitWhy = "clickfail" /\ saved_in_slice > 0
    /\ click.primary = "other" /\ click.fallback = "raises"

\* C21: when a run reaches its summary, total_saved, the sum of what the
\* slice calls returned, is the number of rows the run appended to the store,
\* also when a call was interrupted by a driver fault and the slice called again.
C21_TotalIsAppended ==
    pc \in {"compact", "done"} => total_saved = appended

\* C22: at most one session is live at any time; when the run has ended every
\* session make_driver created, the navigation guard's included, has been
\* quit; and a call of the slice function begins on the session created last.
C22_OneSessionAllQuit ==
    /\ Cardinality(live) <= 1
    /\ pc \in {"compact", "done", "crashed", "dead", "iofail"} => live = {}
    /\ (pc = "nav" /\ page = Blank) => drv = made

\* C23: within a call of the slice function saved_in_slice is the number of
\* elements of seen_slice, so each navigation of the call requests the offset
\* one past the number of distinct identities the call has saved.
C23_SavedIsSeenSize ==
    /\ saved_in_slice = Cardinality(seen_slice)
    /\ pc = "wait" => requested = 1 + Cardinality(seen_slice)

\* C24: seen_slice is always a subset of the ledger; an identity enters
\* seen_slice only in a step in which it enters the ledger; and for every
\* window the slice can parse, at the offset of the page it is on or at the
\* offset its probe will request, the filter against both sets keeps exactly
\* the rows the filter against the ledger alone keeps.
C24_SliceWithinLedger ==
    /\ [](seen_slice \subseteq seen_global)
    /\ [](pc \in {"wait", "expand", "probe"}
            => \A o \in {page.off, saved_in_slice + 1} : \A k \in 0..MAX_CLICKS_PER_SLICE :
                  parse_cards_into_rows(Window(m, o, k), seen_global, seen_slice)
                    = parse_cards_into_rows(Window(m, o, k), seen_global, {}))
    /\ [][(seen_slice' \ seen_slice) \subseteq (seen_global' \ seen_global)]_vars

\* the slice has saved an identity, the ledger holds another from before, and
\* the rendered window shows both
C24_Witness ==
    /\ pc = "expand"
    /\ seen_slice # {}
    /\ seen_global \ seen_slice # {}
    /\ seen_slice \cap Range(Window(m, page.off, page.k)) # {}
    /\ (seen_global \ seen_slice) \cap Range(Window(m, page.off, page.k)) # {}

\* C25: in "More like this movie" mode, once a reference movie is chosen and
\* "Find similar" pressed, the run ends with a list or with the "no similar
\* movies" warning; a list has between 1 and k rows, each with similarity at
\* least min_sim and, when min_rating is above 0, a rating that is missing or
\* at least min_rating, in non-increasing order of similarity.
C25_ItemModeOutcome ==
    (ui # NoUi /\ ui.go /\ shown # NotRun)
        => /\ shown.kind \in {"list", "warning"}
           /\ shown.kind = "list"
                => LET b == base_idx(ui.df, ui.pick)
                       res == shown.res
                   IN  /\ Len(res) \in 1..ui.k
                       /\ \A a \in 1..Len(res) :
                             /\ ui.X[b][res[a]] >= ui.min_sim
                             /\ ui.min_rating > 0
                                  => \/ ui.df[res[a]].rating_float = << >>
                                     \/ ui.df[res[a]].rating_float[1] >= ui.min_rating
                       /\ \A a, c \in 1..Len(res) :
                             a < c => ui.X[b][res[a]] >= ui.X[b][res[c]]

====
